---- MODULE Spec2Model ----
(***************************************************************************)
(* State-machine model of src/src/utils/mediaConverter.ts (lines 1-582):   *)
(* the shared FFmpeg handle, the cancellation flag, cancelConversion,      *)
(* convertMedia and the two conversion paths it routes to.                 *)
(*                                                                         *)
(* Every `await` on an external operation (File reads, FFmpeg worker       *)
(* calls, timers) is a suspension point: the code between two suspension   *)
(* points runs as one action.  The FFmpeg worker and ImageMagick are       *)
(* external collaborators; their answers are nondeterministic choices.     *)
(***************************************************************************)
EXTENDS Integers, Sequences, FiniteSets, TLC

(***************************************************************************)
(* Bounds of the model.                                                    *)
(***************************************************************************)
MaxCalls == 1        \* convertMedia calls in one behaviour
HandlerCalls == 2    \* convertMedia calls in one behaviour of SpecHandlers
OverlapCalls == 2    \* convertMedia calls in one behaviour of SpecOverlap
MaxHandles == 1      \* FFmpeg instances handed to setFFmpegInstance
MaxFrames == 2       \* frames ImageMagick decodes from an animated image
PipelineFrames == 11 \* frames of the animated image in SpecPipeline
MaxWriteFaults == 1  \* frame writes a live engine rejects in SpecPipeline

(***************************************************************************)
(* Program constants.                                                      *)
(***************************************************************************)
MaxFileSize == 100 * 1024 * 1024
BATCH_SIZE == 10

(***************************************************************************)
(* Strings.  TLC evaluates Len, SubSeq, Head, Tail and \o on strings, so   *)
(* the JavaScript string methods are computed character by character.      *)
(***************************************************************************)
StartsWith(s, p) == Len(s) >= Len(p) /\ SubSeq(s, 1, Len(p)) = p

Includes(s, p) ==
    \E i \in 1..(Len(s) - Len(p) + 1) : SubSeq(s, i, i + Len(p) - 1) = p

UpperChars == "ABCDEFGHIJKLMNOPQRSTUVWXYZ"
LowerChars == "abcdefghijklmnopqrstuvwxyz"

\* Per-character table of String.prototype.toLowerCase on ASCII letters.
LowerTable ==
    [c \in {SubSeq(UpperChars, i, i) : i \in 1..Len(UpperChars)} |->
        LET i == CHOOSE k \in 1..Len(UpperChars) : SubSeq(UpperChars, k, k) = c
        IN  SubSeq(LowerChars, i, i)]

LowerChar(c) == IF c \in DOMAIN LowerTable THEN LowerTable[c] ELSE c

RECURSIVE ToLowerCase(_)
ToLowerCase(s) ==
    IF s = "" THEN "" ELSE LowerChar(Head(s)) \o ToLowerCase(Tail(s))

DigitChars == "0123456789"

RECURSIVE NumToString(_)
NumToString(n) ==
    IF n < 10 THEN SubSeq(DigitChars, n + 1, n + 1)
    ELSE NumToString(n \div 10) \o SubSeq(DigitChars, (n % 10) + 1, (n % 10) + 1)

RECURSIVE PadStart(_, _, _)
PadStart(s, n, c) == IF Len(s) >= n THEN s ELSE PadStart(c \o s, n, c)

\* Math.round(num / den) for num >= 0, den > 0: floor(x + 1/2).
Round(num, den) == (2 * num + den) \div (2 * den)

Min(a, b) == IF a < b THEN a ELSE b

SeqToSet(s) == { s[i] : i \in 1..Len(s) }

(***************************************************************************)
(* Format helpers and codec tables.                                        *)
(***************************************************************************)
VideoFormats == {"mp4", "webm", "mov", "mkv", "avi", "flv", "gif"}
AudioFormats == {"mp3", "wav", "ogg", "aac", "m4a", "flac"}

isVideoFormat(format) == ToLowerCase(format) \in VideoFormats
isAudioFormat(format) == ToLowerCase(format) \in AudioFormats

getVideoCodecCaseSensitive(format) ==
    CASE format = "mp4"  -> "libx264"
      [] format = "webm" -> "libvpx-vp9"
      [] format = "gif"  -> "gif"
      [] OTHER -> "libx264"

getVideoCodec(format) ==
    CASE ToLowerCase(format) = "mp4"  -> "libx264"
      [] ToLowerCase(format) = "webm" -> "libvpx-vp9"
      [] ToLowerCase(format) = "gif"  -> "gif"
      [] OTHER -> "libx264"

getAudioCodecWithWebm(format) ==
    CASE ToLowerCase(format) = "mp3"  -> "libmp3lame"
      [] ToLowerCase(format) = "aac"  -> "aac"
      [] ToLowerCase(format) = "ogg"  -> "libvorbis"
      [] ToLowerCase(format) = "wav"  -> "pcm_s16le"
      [] ToLowerCase(format) = "m4a"  -> "aac"
      [] ToLowerCase(format) = "flac" -> "flac"
      [] ToLowerCase(format) = "webm" -> "libopus"
      [] OTHER -> "aac"

getAudioCodec(format) ==
    CASE ToLowerCase(format) = "mp3"  -> "libmp3lame"
      [] ToLowerCase(format) = "aac"  -> "aac"
      [] ToLowerCase(format) = "ogg"  -> "libvorbis"
      [] ToLowerCase(format) = "wav"  -> "pcm_s16le"
      [] ToLowerCase(format) = "m4a"  -> "aac"
      [] ToLowerCase(format) = "flac" -> "flac"
      [] OTHER -> "aac"

\* formatMap of convertWithImageMagick: the keys that have an entry.
MagickFormatKeys == {"png", "jpg", "jpeg", "webp", "gif", "bmp", "tiff"}
hasMagickFormatCaseSensitive(format) == format \in MagickFormatKeys

hasMagickFormat(format) == ToLowerCase(format) \in MagickFormatKeys

(***************************************************************************)
(* Names in the engine's working filesystem.                               *)
(***************************************************************************)
InputName(file) == "input_" \o file.name
OutputName(format) == "output." \o format
FrameNameUnpadded(j) == "frame-" \o NumToString(j) \o ".png"
FrameName(j) == "frame-" \o PadStart(NumToString(j), 4, "0") \o ".png"
FramePattern == "frame-%04d.png"
PaletteName == "palette.png"

(***************************************************************************)
(* Argument vectors.                                                       *)
(***************************************************************************)
ImageToVideoArgs(inName, format, outName) ==
    << "-loop", "1", "-t", "5", "-i", inName, "-c:v", getVideoCodec(format),
       "-pix_fmt", "yuv420p", "-r", "25", outName >>

VideoToImageArgs(inName, outName) ==
    << "-i", inName, "-vf", "scale=iw:ih", "-frames:v", "1", outName >>

VideoToVideoArgs(inName, format, outName) ==
    << "-i", inName, "-c:v", getVideoCodec(format), "-c:a", getAudioCodec(format),
       outName >>

AudioToAudioArgs(inName, format, outName) ==
    << "-i", inName, "-c:a", getAudioCodec(format), outName >>

VideoToAudioArgs(inName, format, outName) ==
    << "-i", inName, "-vn", "-c:a", getAudioCodec(format), outName >>

PaletteGenArgs(inName) ==
    << "-i", inName, "-filter_complex", "[0:v] palettegen", PaletteName >>

PaletteUseArgs(inName, outName) ==
    << "-i", inName, "-i", PaletteName, "-filter_complex", "[0:v][1:v] paletteuse",
       outName >>

FrameSequenceArgsAsStill(inName, format, outName) ==
    << "-loop", "1", "-t", "5", "-i", inName, "-c:v", getVideoCodec(format),
       "-pix_fmt", "yuv420p", "-r", "25", outName >>

FrameSequenceArgs(inName, format, outName) ==
    << "-framerate", "25", "-i", inName, "-vf", "scale=trunc(iw/2)*2:trunc(ih/2)*2",
       "-c:v", getVideoCodec(format), "-pix_fmt", "yuv420p", outName >>

\* Step 6 of convertWithFFmpeg: the if / else-if chain over the four kind flags.
BuildArgs(inVideo, inAudio, tgtVideo, tgtAudio, inName, format, outName) ==
    IF ~inVideo /\ ~inAudio /\ tgtVideo THEN ImageToVideoArgs(inName, format, outName)
    ELSE IF inVideo /\ ~tgtVideo /\ ~tgtAudio THEN VideoToImageArgs(inName, outName)
    ELSE IF inVideo /\ tgtVideo THEN VideoToVideoArgs(inName, format, outName)
    ELSE IF inAudio /\ tgtAudio THEN AudioToAudioArgs(inName, format, outName)
    ELSE IF inVideo /\ tgtAudio THEN VideoToAudioArgs(inName, format, outName)
    ELSE << >>

\* The special case after the chain: video input and target 'gif'.
IsVideoToGif(inVideo, format) == inVideo /\ ToLowerCase(format) = "gif"

(***************************************************************************)
(* convertMedia's decisions.                                               *)
(***************************************************************************)
TooLargeInclusive(size) == size >= MaxFileSize

TooLarge(size) == size > MaxFileSize

IsImageToImage(type, format) ==
    /\ ~StartsWith(type, "video/")
    /\ ~StartsWith(type, "audio/")
    /\ ~isVideoFormat(format)
    /\ ~isAudioFormat(format)

UsesImageMagickForAnyImage(type, format) == IsImageToImage(type, format)

UsesImageMagick(type, format) ==
    /\ IsImageToImage(type, format)
    /\ (~Includes(type, "webp") \/ ToLowerCase(format) = "png")

NeverAnimatedWebpToVideo(type, format) == FALSE

IsAnimatedWebpToVideo(type, format) == type = "image/webp" /\ isVideoFormat(format)

MagickMimeTypeLowered(format) == "image/" \o ToLowerCase(format)

\* The MIME tag of convertWithImageMagick's Blob.
MagickMimeType(format) == "image/" \o format

GenericMimeTypeAlwaysImage(tgtVideo, format) == "image/" \o format

GenericMimeTypeWithAudio(tgtVideo, format) ==
    IF tgtVideo THEN "video/" \o format
    ELSE IF isAudioFormat(format) THEN "audio/" \o format
    ELSE "image/" \o format

\* Step 10 of convertWithFFmpeg: the MIME tag of the generic path's result.
GenericMimeType(tgtVideo, format) ==
    IF tgtVideo THEN "video/" \o format ELSE "image/" \o format

(***************************************************************************)
(* State.                                                                  *)
(***************************************************************************)
VARIABLES
    ffmpeg,       \* module variable `ffmpeg`: NoHandle (null) or an instance id
    isCancelled,  \* module variable `isCancelled`
    engines,      \* per FFmpeg instance: worker loaded?, its filesystem, its listeners
    created,      \* number of FFmpeg instances created so far
    cancelAwait,  \* a cancelConversion call is suspended at `await ffmpeg.terminate()`
    calls,        \* convertMedia calls so far
    job           \* the convertMedia call in progress (or the last one finished)

vars == << ffmpeg, isCancelled, engines, created, cancelAwait, calls, job >>

NoHandle == 0
Handles == 1..MaxHandles

NoEngine == [loaded |-> FALSE, fs |-> {}, handlers |-> {}]

\* The inputs convertMedia is called with.
FileTypes == {"image/png", "image/webp", "video/mp4", "audio/mpeg"}
Files ==
    [name : {"a"}, type : FileTypes, size : {MaxFileSize}]
        \cup [name : {"a"}, type : {"video/mp4"}, size : {MaxFileSize + 1}]
TargetFormats == {"png", "PNG", "jpg", "xyz", "mp4", "gif", "mp3"}

\* The job record.  The fields up to engProg are the locals of convertMedia and
\* convertWithFFmpeg that live across an await; the fields after it record what
\* the call has done so far and what it returned, and steer nothing.
NewJob ==
    [ pc |-> "idle",
      file |-> [name |-> "", type |-> "", size |-> 0],
      targetFormat |-> "",
      isInputVideo |-> FALSE, isInputAudio |-> FALSE,
      isTargetVideo |-> FALSE, isTargetAudio |-> FALSE,
      ffmpegInputName |-> "",
      outputName |-> "",
      tempFiles |-> << >>,
      ffmpegArgs |-> << >>,
      h |-> NoHandle,            \* instance the pending engine call was made on
      error |-> "",              \* the error travelling to convertMedia's catch
      cleanupQueue |-> << >>,    \* cleanupTempFiles: names still to delete
      cleanupAfter |-> "",       \* what follows the await of cleanupTempFiles
      blobType |-> "",
      frameCount |-> 0,
      batchStart |-> 0,          \* loop variable i of the batch loop
      frameNames |-> << >>,
      frames |-> << >>,          \* per frame of the batch: its promise's state
      faults |-> 0,              \* frame writes a live engine has rejected (kept on return)
      engProg |-> -1,            \* last progress step the pending exec reported
      sinks |-> {},              \* onProgress calls the last progress event made
      \* ---- observation ----
      id |-> 0,
      route |-> "",
      outcome |-> "",
      resultTag |-> "",
      cancelDuring |-> FALSE,    \* cancelConversion was called during this call
      overlapped |-> FALSE,      \* another convertMedia call started after that
      cleanupCalls |-> 0,
      cleanupNamed |-> {},
      deleteAttempted |-> {},
      warnings |-> 0,
      written |-> {},            \* names this call put into an engine filesystem
      execs |-> << >>,           \* argument vectors passed to exec, in order
      flagChecked |-> FALSE,     \* isCancelled was read since the last exec settled
      settled |-> 0,             \* execs that have resolved or rejected
      execChecked |-> << >>,     \* per exec: was isCancelled read before issuing it
      engineOps |-> 0,           \* FFmpeg calls made (writeFile, exec, readFile, deleteFile, on)
      magickOps |-> 0,           \* ImageMagick decodes made
      progress |-> << >>,        \* values passed to onProgress, in order
      errOp |-> "",              \* the first operation that failed inside the call
      errFlag |-> "" ]           \* isCancelled when it failed: "set" / "unset"

Init ==
    /\ ffmpeg = NoHandle
    /\ isCancelled = FALSE
    /\ engines = [h \in Handles |-> NoEngine]
    /\ created = 0
    /\ cancelAwait = FALSE
    /\ calls = 0
    /\ job = NewJob

Running == job.pc \notin {"idle", "done"}

(***************************************************************************)
(* The synchronous tails of a call: return, throw, catch, cleanup.         *)
(***************************************************************************)
onProgress(j, v) == [j EXCEPT !.progress = Append(@, v)]

\* Record that operation `op` threw or rejected inside the call.
Failed(j, op) ==
    IF j.errOp # "" THEN j
    ELSE [j EXCEPT !.errOp = op, !.errFlag = IF isCancelled THEN "set" ELSE "unset"]

\* The call has returned or thrown: its locals are gone; what it did and what
\* it gave back stay on record.
Returned(j, outcome, tag) ==
    [NewJob EXCEPT
        !.pc = "done", !.outcome = outcome, !.resultTag = tag,
        !.file = j.file, !.targetFormat = j.targetFormat,
        !.isInputVideo = j.isInputVideo, !.isInputAudio = j.isInputAudio,
        !.isTargetVideo = j.isTargetVideo, !.isTargetAudio = j.isTargetAudio,
        !.id = j.id, !.route = j.route, !.cancelDuring = j.cancelDuring,
        !.overlapped = j.overlapped, !.faults = j.faults,
        !.cleanupCalls = j.cleanupCalls, !.cleanupNamed = j.cleanupNamed,
        !.deleteAttempted = j.deleteAttempted, !.warnings = j.warnings,
        !.written = j.written, !.execs = j.execs, !.engineOps = j.engineOps,
        !.execChecked = j.execChecked, !.settled = j.settled,
        !.magickOps = j.magickOps, !.progress = j.progress,
        !.errOp = j.errOp, !.errFlag = j.errFlag]

SettleWithoutFlag(j, err, cancelled) == Returned(j, err, "")

\* convertMedia's catch block, reading the flag as `cancelled`.
SettleWith(j, err, cancelled) ==
    Returned(j, IF cancelled THEN "Cancelled" ELSE err, "")

Settle(j, err) == SettleWith(j, err, isCancelled)

Succeed(j) == Returned(j, "Success", j.blobType)

InstanceNeverMissing(instance) == FALSE

\* `if (!ffmpegInstance) return;` at the top of cleanupTempFiles.
InstanceMissing(instance) == instance = NoHandle

RECURSIVE cleanupTempFiles(_, _, _)
RECURSIVE AfterCleanup(_, _)
RECURSIVE Catch(_, _)

\* cleanupTempFiles(ffmpeg, files, onLog), called with the module variable as
\* it is now; `after` is what the caller does once the call has returned.
cleanupTempFiles(j, files, after) ==
    LET j1 == [j EXCEPT !.cleanupCalls = @ + 1,
                        !.cleanupNamed = @ \cup SeqToSet(files)]
    IN  IF InstanceMissing(ffmpeg) \/ files = << >>
        THEN AfterCleanup(j1, after)
        ELSE [j1 EXCEPT !.pc = "cleanup",
                        !.h = ffmpeg,
                        !.cleanupQueue = files,
                        !.cleanupAfter = after,
                        !.deleteAttempted = @ \cup {Head(files)},
                        !.engineOps = @ + 1]

AfterCleanup(j, after) ==
    CASE after = "return" -> Succeed(j)
      [] after = "rethrow" -> Settle(j, j.error)
      [] after = "throwCancelled" -> Catch(j, "Cancelled")

\* The catch block of convertWithFFmpeg's outer try.
Catch(j, err) == cleanupTempFiles([j EXCEPT !.error = err], j.tempFiles, "rethrow")

\* The catch block around the final exec of the generic path.
ReclassifyExecError(err) == IF isCancelled THEN "Cancelled" ELSE err

(***************************************************************************)
(* The FFmpeg instances.                                                   *)
(***************************************************************************)
AddFile(e, h, name) == [e EXCEPT ![h].fs = @ \cup {name}]
RemoveFile(e, h, name) == [e EXCEPT ![h].fs = @ \ {name}]

TerminateWithoutEffect(e, h) == e

\* ffmpeg.terminate(): the worker is gone, and its filesystem with it; every
\* call pending on the instance, and every later one, rejects.
Terminate(e, h) == [e EXCEPT ![h].loaded = FALSE, ![h].fs = {}]

\* ffmpeg.on('log', ...) and ffmpeg.on('progress', ...): one listener pair,
\* owned by call `id`, scaling progress the `kind` way.
Register(e, h, id, kind) ==
    [e EXCEPT ![h].handlers = @ \cup {[job |-> id, kind |-> kind]}]

\* The progress an exec reports, in hundredths (event.progress is 0, 0.5 or 1).
EngineProgressValues == {0, 50, 100}

ProgressValueUnscaled(kind, p) == Round(p * 100, 100)

\* Value a progress listener of the given kind passes to onProgress when the
\* engine reports p / 100.
ProgressValue(kind, p) ==
    IF kind = "anim" THEN 40 + Round(p * 60, 100)
    ELSE Round(p * 100, 100)

\* `await ffmpeg.exec(args)` is issued on the instance the module variable holds.
IssueExec(j, pc, args) ==
    [j EXCEPT !.pc = pc, !.h = ffmpeg, !.engProg = -1,
              !.execs = Append(@, args), !.engineOps = @ + 1,
              !.execChecked = Append(@, j.flagChecked), !.flagChecked = FALSE]

\* `await ffmpeg.exec(...)` has resolved or rejected.
ExecSettled(j) == [j EXCEPT !.settled = @ + 1]

\* The argument vector of the exec that is pending.
PendingArgs(j) == j.execs[Len(j.execs)]

IssueReadFile(j, pc) ==
    [j EXCEPT !.pc = pc, !.h = ffmpeg, !.engineOps = @ + 1]

(***************************************************************************)
(* setFFmpegInstance and cancelConversion.                                 *)
(***************************************************************************)
\* The application installs an instance when none is installed (App.tsx does
\* it once, after loading the instance).
setFFmpegInstance ==
    /\ created < MaxHandles
    /\ ffmpeg = NoHandle
    /\ created' = created + 1
    /\ ffmpeg' = created + 1
    /\ engines' = [engines EXCEPT ![created + 1] =
                       [loaded |-> TRUE, fs |-> {}, handlers |-> {}]]
    /\ UNCHANGED << isCancelled, cancelAwait, calls, job >>

KeptHandle(h) == h

\* `ffmpeg = null` at the end of cancelConversion.
DiscardedHandle(h) == NoHandle

\* `if (ffmpeg)` in cancelConversion.
HasHandle(h) == h # NoHandle

CancelConversionKeepingHandle(m) ==
    IF HasHandle(m.handle)
    THEN [flag |-> TRUE, handle |-> m.handle,
          engines |-> Terminate(m.engines, m.handle), teardowns |-> m.teardowns + 1]
    ELSE [m EXCEPT !.flag = TRUE]

CancelConversionFlagLast(m) ==
    IF HasHandle(m.handle)
    THEN [flag |-> m.flag, handle |-> DiscardedHandle(m.handle),
          engines |-> Terminate(m.engines, m.handle), teardowns |-> m.teardowns + 1]
    ELSE [m EXCEPT !.flag = TRUE]

\* One cancelConversion call run to its end on the module state m (the flag,
\* the handle, the instances, and a count of the terminate() calls made).
CancelConversionFrom(m) ==
    IF HasHandle(m.handle)
    THEN [flag |-> TRUE, handle |-> DiscardedHandle(m.handle),
          engines |-> Terminate(m.engines, m.handle), teardowns |-> m.teardowns + 1]
    ELSE [m EXCEPT !.flag = TRUE]

\* The module state as cancelConversion finds it.
ModuleState ==
    [flag |-> isCancelled, handle |-> ffmpeg, engines |-> engines, teardowns |-> 0]

\* cancelConversion up to its await: the flag, then terminate() on the handle.
\* terminate() returns at once, so the await lasts one turn of the microtask
\* queue: the continuations of the calls it rejected may run inside it, a
\* second cancelConversion may not.
cancelConversion ==
    /\ ~cancelAwait
    /\ isCancelled' = CancelConversionFrom(ModuleState).flag
    /\ job' = IF Running THEN [job EXCEPT !.cancelDuring = TRUE] ELSE job
    /\ engines' = CancelConversionFrom(ModuleState).engines
    /\ cancelAwait' = HasHandle(ffmpeg)
    /\ UNCHANGED << ffmpeg, created, calls >>

\* cancelConversion after its await (terminate settled or threw).
cancelConversionResume ==
    /\ cancelAwait
    /\ cancelAwait' = FALSE
    /\ ffmpeg' = CancelConversionFrom(ModuleState).handle
    /\ UNCHANGED << isCancelled, engines, created, calls, job >>

(***************************************************************************)
(* convertMedia, up to the first await of the path it routes to.           *)
(***************************************************************************)
FlagLeftAsIs(flag) == flag

\* `isCancelled = false` at the start of convertMedia.
ResetFlag(flag) == FALSE

\* `if (!ffmpeg)` at the top of convertWithFFmpeg.
EngineMissing == ffmpeg = NoHandle

HandleCreatedOnDemand(h) == IF h = NoHandle THEN 1 ELSE h

\* convertMedia and the functions it calls read the module variable `ffmpeg`
\* and never assign it: with no instance convertWithFFmpeg throws (187-189).
HandleLeftByConvert(h) == h

convertMediaUpTo(maxCalls, file, format) ==
    LET j0 == [NewJob EXCEPT
                  !.id = calls + 1,
                  !.file = file,
                  !.targetFormat = format,
                  !.isInputVideo = StartsWith(file.type, "video/"),
                  !.isInputAudio = StartsWith(file.type, "audio/"),
                  !.isTargetVideo = isVideoFormat(format),
                  !.isTargetAudio = isAudioFormat(format)]
        j1 == [j0 EXCEPT !.route = "ffmpeg", !.ffmpegInputName = InputName(file)]
    IN  /\ ~Running
        /\ calls < maxCalls
        /\ calls' = calls + 1
        /\ isCancelled' = ResetFlag(isCancelled)
        /\ job' =
             IF TooLarge(file.size)
             THEN SettleWith([j0 EXCEPT !.errOp = "size", !.errFlag = "unset"],
                             "FileTooLarge", ResetFlag(isCancelled))
             ELSE IF UsesImageMagick(file.type, format)
             THEN [j0 EXCEPT !.route = "imagemagick", !.pc = "im_arrayBuffer"]
             ELSE IF EngineMissing
             THEN SettleWith([j1 EXCEPT !.errOp = "handle", !.errFlag = "unset"],
                             "EngineUnavailable", ResetFlag(isCancelled))
             ELSE IF IsAnimatedWebpToVideo(file.type, format)
             THEN [j1 EXCEPT !.pc = "anim_arrayBuffer"]
             ELSE [j1 EXCEPT !.pc = "gen_fetchFile",
                             !.h = ffmpeg,
                             !.outputName = OutputName(format)]
        /\ ffmpeg' = HandleLeftByConvert(ffmpeg)
        /\ UNCHANGED << engines, created, cancelAwait >>

convertMedia(file, format) == convertMediaUpTo(MaxCalls, file, format)

\* A second convertMedia call made while a call is in flight and after
\* cancelConversion was invoked on it.  The calls taken are those that throw
\* before their first await (file too large; FFmpeg route with no handle):
\* such a call clears the flag at line 59 and touches nothing else, and its
\* catch block only reads the flag.
convertMediaDuring(file, format) ==
    /\ Running
    /\ job.cancelDuring
    /\ calls < OverlapCalls
    /\ \/ TooLarge(file.size)
       \/ ~UsesImageMagick(file.type, format) /\ EngineMissing
    /\ calls' = calls + 1
    /\ isCancelled' = ResetFlag(isCancelled)
    /\ job' = [job EXCEPT !.overlapped = TRUE]
    /\ UNCHANGED << ffmpeg, engines, created, cancelAwait >>

(***************************************************************************)
(* convertWithImageMagick: everything after `await file.arrayBuffer()` is  *)
(* synchronous (ImageMagick.read and image.write call back at once).       *)
(***************************************************************************)
ImageMagickRead ==
    /\ job.pc = "im_arrayBuffer"
    /\ \E decoded \in BOOLEAN :
         job' =
           IF isCancelled THEN Settle(job, "Cancelled")
           ELSE LET j1 == [job EXCEPT !.magickOps = @ + 1] IN
                IF ~decoded THEN Settle(Failed(j1, "decode"), "DecodeFailed")
                ELSE IF ~hasMagickFormat(job.targetFormat)
                THEN Settle(Failed(onProgress(j1, 50), "format"),
                            "UnsupportedTargetFormat")
                ELSE Succeed([onProgress(onProgress(j1, 50), 100) EXCEPT
                                 !.blobType = MagickMimeType(job.targetFormat)])
    /\ UNCHANGED << ffmpeg, isCancelled, engines, created, cancelAwait, calls >>

(***************************************************************************)
(* convertWithFFmpeg, generic branch.                                      *)
(***************************************************************************)
\* `await fetchFile(file)` settles; writeFile is called on the instance that
\* `ffmpeg.writeFile` was read from before the await.
GenericFetchFile ==
    /\ job.pc = "gen_fetchFile"
    /\ job' = [job EXCEPT !.pc = "gen_writeFile", !.engineOps = @ + 1]
    /\ UNCHANGED << ffmpeg, isCancelled, engines, created, cancelAwait, calls >>

\* Steps 5-7 after the input was written: listeners, argument vector, and the
\* first exec (palette generation for video -> gif, the final exec otherwise).
GenericStartExec(j) ==
    LET args == BuildArgs(j.isInputVideo, j.isInputAudio, j.isTargetVideo,
                          j.isTargetAudio, j.ffmpegInputName, j.targetFormat,
                          j.outputName)
        j1 == [j EXCEPT !.engineOps = @ + 2, !.ffmpegArgs = args]
    IN  IF IsVideoToGif(j.isInputVideo, j.targetFormat)
        THEN IssueExec(j1, "gen_paletteExec", PaletteGenArgs(j.ffmpegInputName))
        ELSE IssueExec(j1, "gen_exec", j1.ffmpegArgs)

GenericWriteFile ==
    /\ job.pc = "gen_writeFile"
    /\ \E ok \in BOOLEAN :
         /\ ok => engines[job.h].loaded
         /\ IF ~ok
            THEN /\ job' = Catch(Failed(job, "writeFile"), "EngineIOFailed")
                 /\ UNCHANGED engines
            ELSE LET e1 == AddFile(engines, job.h, job.ffmpegInputName)
                     j1 == [job EXCEPT !.written = @ \cup {job.ffmpegInputName}]
                 IN  IF isCancelled
                     THEN /\ job' = cleanupTempFiles(j1, << job.ffmpegInputName >>,
                                                     "throwCancelled")
                          /\ engines' = e1
                     ELSE IF ffmpeg = NoHandle
                     THEN /\ job' = Catch(Failed(j1, "handle"), "TypeError")
                          /\ engines' = e1
                     ELSE /\ job' = GenericStartExec([j1 EXCEPT !.flagChecked = TRUE])
                          /\ engines' = Register(e1, ffmpeg, job.id, "generic")
    /\ UNCHANGED << ffmpeg, isCancelled, created, cancelAwait, calls >>

\* What an exec that resolves leaves behind: the file its last argument names,
\* or nothing (the engine's exit code is not looked at).
ExecResults(args) == IF args = << >> THEN {"nothing"} ELSE {"nothing", "file"}

\* The final exec of the generic branch is issued inside its own try.
GenericFinalExec(j) ==
    IF ffmpeg = NoHandle
    THEN Catch(Failed(j, "handle"), ReclassifyExecError("TypeError"))
    ELSE IssueExec(j, "gen_exec", j.ffmpegArgs)

GenericPaletteExec ==
    /\ job.pc = "gen_paletteExec"
    /\ \/ /\ job' = Catch(Failed(ExecSettled(job), "exec"),
                          "EngineExecutionFailed")
          /\ UNCHANGED engines
       \/ /\ engines[job.h].loaded
          /\ \E res \in ExecResults(PendingArgs(job)) :
               IF res = "file"
               THEN /\ engines' = AddFile(engines, job.h, PaletteName)
                    /\ job' = GenericFinalExec(
                                 [ExecSettled(job) EXCEPT
                                     !.written = @ \cup {PaletteName},
                                     !.ffmpegArgs = PaletteUseArgs(
                                         job.ffmpegInputName, job.outputName)])
               ELSE /\ UNCHANGED engines
                    /\ job' = GenericFinalExec(
                                 [ExecSettled(job) EXCEPT
                                     !.ffmpegArgs = PaletteUseArgs(
                                         job.ffmpegInputName, job.outputName)])
    /\ UNCHANGED << ffmpeg, isCancelled, created, cancelAwait, calls >>

GenericExec ==
    /\ job.pc = "gen_exec"
    /\ \/ /\ job' = Catch(Failed(ExecSettled(job), "exec"),
                          ReclassifyExecError("EngineExecutionFailed"))
          /\ UNCHANGED engines
       \/ /\ engines[job.h].loaded
          /\ \E res \in ExecResults(PendingArgs(job)) :
               LET made == res = "file"
                   j1 == IF made
                         THEN [ExecSettled(job) EXCEPT !.written = @ \cup {job.outputName}]
                         ELSE ExecSettled(job)
               IN  /\ engines' = IF made THEN AddFile(engines, job.h, job.outputName)
                                 ELSE engines
                   /\ job' = IF isCancelled THEN Catch(j1, "Cancelled")
                             ELSE IF ffmpeg = NoHandle THEN Catch(Failed(j1, "handle"), "TypeError")
                             ELSE IssueReadFile(j1, "gen_readFile")
    /\ UNCHANGED << ffmpeg, isCancelled, created, cancelAwait, calls >>

GenericReadFile ==
    /\ job.pc = "gen_readFile"
    /\ job' = IF engines[job.h].loaded /\ job.outputName \in engines[job.h].fs
              THEN cleanupTempFiles(
                       [job EXCEPT !.blobType =
                            GenericMimeType(job.isTargetVideo, job.targetFormat)],
                       << job.ffmpegInputName, job.outputName, PaletteName >>,
                       "return")
              ELSE Catch(Failed(job, "readFile"), "EngineIOFailed")
    /\ UNCHANGED << ffmpeg, isCancelled, engines, created, cancelAwait, calls >>

(***************************************************************************)
(* cleanupTempFiles: one `await ffmpegInstance.deleteFile(filename)` per   *)
(* name, on the instance the caller passed; a failure is logged.           *)
(***************************************************************************)
\* The loop body after `await ffmpegInstance.deleteFile(filename)` settled: a
\* rejection is caught and logged as a warning; then the next name, or the
\* return to the caller.
CleanupLoopStep(j, ok) ==
    LET rest == Tail(j.cleanupQueue)
        j1 == [j EXCEPT !.cleanupQueue = rest,
                        !.warnings = IF ok THEN @ ELSE @ + 1]
    IN  IF rest = << >>
        THEN AfterCleanup(j1, j.cleanupAfter)
        ELSE [j1 EXCEPT !.deleteAttempted = @ \cup {Head(rest)},
                        !.engineOps = @ + 1]

CleanupRaisingOnFailure(j, ok) ==
    IF ok THEN CleanupLoopStep(j, ok)
    ELSE Settle(Failed(j, "deleteFile"), "EngineIOFailed")

AfterDeleteFile(j, ok) == CleanupLoopStep(j, ok)

CleanupDelete ==
    /\ job.pc = "cleanup"
    /\ LET name == Head(job.cleanupQueue)
           ok == engines[job.h].loaded /\ name \in engines[job.h].fs
       IN  /\ engines' = IF ok THEN RemoveFile(engines, job.h, name) ELSE engines
           /\ job' = AfterDeleteFile(job, ok)
    /\ UNCHANGED << ffmpeg, isCancelled, created, cancelAwait, calls >>

(***************************************************************************)
(* A progress event of the engine during a pending exec: every listener on *)
(* the instance runs; the listeners of this call feed its onProgress.      *)
(***************************************************************************)
ExecPending == job.pc \in {"gen_paletteExec", "gen_exec", "anim_exec"}

InvokedSinksOfRunningCall(listeners, p) ==
    { [job |-> l.job, value |-> ProgressValue(l.kind, p)] :
        l \in { m \in listeners : m.job = job.id } }

\* The instance emits 'progress' with p / 100: every listener registered on it
\* runs, and each passes its own scaling of p to the onProgress it closed over.
InvokedSinks(listeners, p) ==
    { [job |-> l.job, value |-> ProgressValue(l.kind, p)] : l \in listeners }

EngineProgress ==
    /\ ExecPending
    /\ engines[job.h].loaded
    /\ \E k \in { p \in EngineProgressValues : p > job.engProg } :
         LET mine == { l \in engines[job.h].handlers : l.job = job.id }
             j1 == [job EXCEPT !.engProg = k,
                               !.sinks = InvokedSinks(engines[job.h].handlers, k)]
         IN  job' = IF mine = {} THEN j1
                    ELSE onProgress(j1, ProgressValue((CHOOSE l \in mine : TRUE).kind, k))
    /\ UNCHANGED << ffmpeg, isCancelled, engines, created, cancelAwait, calls >>

(***************************************************************************)
(* convertWithFFmpeg, animated WebP -> video branch.                       *)
(* job.frames[j + 1] is the promise of frame j: "timer" (its setTimeout    *)
(* has not fired), "writing" (its writeFile is pending on instance h) or   *)
(* "resolved".                                                             *)
(***************************************************************************)
BatchEnd(j) == Min(j.batchStart + BATCH_SIZE, j.frameCount)

StartBatchUnchecked(j, i) ==
    LET end == Min(i + BATCH_SIZE, j.frameCount)
    IN  [j EXCEPT !.pc = "anim_batch",
                  !.batchStart = i,
                  !.frameNames = @ \o [k \in 1..(end - i) |-> FrameName(i + k - 1)],
                  !.frames = @ \o [k \in 1..(end - i) |->
                                      [st |-> "timer", h |-> NoHandle]]]

\* One turn of the batch loop from its head: the flag check, then the
\* promises of frames i .. end-1 are created.
StartBatch(j, i) ==
    IF isCancelled THEN Catch(j, "Cancelled")
    ELSE LET end == Min(i + BATCH_SIZE, j.frameCount)
         IN  [j EXCEPT !.pc = "anim_batch",
                       !.batchStart = i,
                       !.frameNames = @ \o [k \in 1..(end - i) |-> FrameName(i + k - 1)],
                       !.frames = @ \o [k \in 1..(end - i) |->
                                           [st |-> "timer", h |-> NoHandle]]]

\* After the extraction promise resolved: the flag check, then the listeners
\* and the one exec over the frame sequence.
ExtractionResolved(j) ==
    IF isCancelled
    THEN cleanupTempFiles(j, j.frameNames, "throwCancelled")
    ELSE LET out == OutputName(j.targetFormat)
             j1 == [j EXCEPT !.ffmpegInputName = FramePattern,
                             !.flagChecked = TRUE,
                             !.tempFiles = j.frameNames,
                             !.outputName = out]
             args == FrameSequenceArgs(FramePattern, j.targetFormat, out)
         IN  IF ffmpeg = NoHandle THEN Catch(Failed(j1, "handle"), "TypeError")
             ELSE IssueExec([j1 EXCEPT !.engineOps = @ + 2, !.ffmpegArgs = args],
                            "anim_exec", args)

\* After Promise.all of a batch: progress, then the next turn of the loop or
\* the resolution of the extraction promise.
BatchDone(j) ==
    LET end == BatchEnd(j)
        j1 == onProgress(j, Round(end * 40, j.frameCount))
        i == j.batchStart + BATCH_SIZE
    IN  IF i < j.frameCount THEN StartBatch(j1, i) ELSE ExtractionResolved(j1)

AfterFrameNeverReleased(j) == j

AfterFrameWithoutBarrier(j) == BatchDone(j)

\* A frame promise resolved: the batch continues once all of them have.
AfterFrame(j) ==
    IF \A k \in 1..Len(j.frames) : j.frames[k].st = "resolved"
    THEN BatchDone(j)
    ELSE j

\* The listeners are registered in the step that issues the animated exec.
RegisterIfExecStarted(e, j) ==
    IF j.pc = "anim_exec" THEN Register(e, ffmpeg, j.id, "anim") ELSE e

\* ImageMagick.readCollection calls back with `counts` as the possible numbers
\* of frames.
AnimatedReadCollectionOf(counts) ==
    /\ job.pc = "anim_arrayBuffer"
    /\ \E decoded \in BOOLEAN, n \in counts :
         LET j1 == [job EXCEPT !.magickOps = @ + 1] IN
         job' = IF ~decoded THEN Catch(Failed(j1, "decode"), "DecodeFailed")
                ELSE IF isCancelled THEN Catch(j1, "Cancelled")
                ELSE StartBatch([j1 EXCEPT !.frameCount = n], 0)
    /\ UNCHANGED << ffmpeg, isCancelled, engines, created, cancelAwait, calls >>

AnimatedReadCollection == AnimatedReadCollectionOf(1..MaxFrames)

\* The setTimeout callback of the next frame (timers fire in creation order).
FrameTimer ==
    /\ job.pc = "anim_batch"
    /\ \E k \in 1..Len(job.frames) :
         /\ job.frames[k].st = "timer"
         /\ \A m \in 1..(k - 1) : job.frames[m].st # "timer"
         /\ LET j1 == IF isCancelled \/ ffmpeg = NoHandle
                      THEN AfterFrame([job EXCEPT !.frames[k].st = "resolved"])
                      ELSE [job EXCEPT !.frames[k] = [st |-> "writing", h |-> ffmpeg],
                                       !.engineOps = @ + 1]
            IN  /\ job' = j1
                /\ engines' = RegisterIfExecStarted(engines, j1)
    /\ UNCHANGED << ffmpeg, isCancelled, created, cancelAwait, calls >>

FrameWriteSettledRethrowing(j, k, ok, fault) ==
    IF ok
    THEN AfterFrame([j EXCEPT !.frames[k].st = "resolved",
                              !.written = @ \cup {j.frameNames[k]}])
    ELSE Catch(Failed([j EXCEPT !.faults = IF fault THEN @ + 1 ELSE @], "writeFile"),
               "EngineIOFailed")

\* The try/catch around the frame's writeFile: the frame promise is resolved
\* whether the write resolved (ok) or rejected; `fault` tells a rejection by
\* a live engine from one by a terminated engine.
FrameWriteSettled(j, k, ok, fault) ==
    AfterFrame([j EXCEPT !.frames[k].st = "resolved",
                         !.faults = IF fault THEN @ + 1 ELSE @,
                         !.written = IF ok THEN @ \cup {j.frameNames[k]} ELSE @])

\* `await ffmpeg.writeFile(frameName, safeData)` of one frame settles.  On a
\* terminated instance it rejects; on a live one it resolves, or rejects for a
\* reason of the engine's own (at most maxFaults times in one call).
FrameWriteFileOf(maxFaults) ==
    /\ job.pc = "anim_batch"
    /\ \E k \in 1..Len(job.frames), ok \in BOOLEAN :
         /\ job.frames[k].st = "writing"
         /\ ok => engines[job.frames[k].h].loaded
         /\ (~ok /\ engines[job.frames[k].h].loaded) => job.faults < maxFaults
         /\ LET name == job.frameNames[k]
                e1 == IF ok THEN AddFile(engines, job.frames[k].h, name) ELSE engines
                j1 == FrameWriteSettled(job, k, ok,
                                        ~ok /\ engines[job.frames[k].h].loaded)
            IN  /\ job' = j1
                /\ engines' = RegisterIfExecStarted(e1, j1)
    /\ UNCHANGED << ffmpeg, isCancelled, created, cancelAwait, calls >>

FrameWriteFile == FrameWriteFileOf(MaxFrames)

AnimatedExec ==
    /\ job.pc = "anim_exec"
    /\ \/ /\ job' = Catch(Failed(ExecSettled(job), "exec"),
                          "EngineExecutionFailed")
          /\ UNCHANGED engines
       \/ /\ engines[job.h].loaded
          /\ \E res \in ExecResults(PendingArgs(job)) :
               LET made == res = "file"
                   j1 == IF made
                         THEN [ExecSettled(job) EXCEPT !.written = @ \cup {job.outputName}]
                         ELSE ExecSettled(job)
               IN  /\ engines' = IF made THEN AddFile(engines, job.h, job.outputName)
                                 ELSE engines
                   /\ job' = IF isCancelled
                             THEN cleanupTempFiles(j1, j1.tempFiles \o << j1.outputName >>,
                                                   "throwCancelled")
                             ELSE IF ffmpeg = NoHandle THEN Catch(Failed(j1, "handle"), "TypeError")
                             ELSE IssueReadFile(j1, "anim_readFile")
    /\ UNCHANGED << ffmpeg, isCancelled, created, cancelAwait, calls >>

AnimatedReadFile ==
    /\ job.pc = "anim_readFile"
    /\ job' = IF engines[job.h].loaded /\ job.outputName \in engines[job.h].fs
              THEN cleanupTempFiles(
                       [job EXCEPT !.blobType = "video/" \o job.targetFormat],
                       job.tempFiles \o << job.outputName, PaletteName >>,
                       "return")
              ELSE Catch(Failed(job, "readFile"), "EngineIOFailed")
    /\ UNCHANGED << ffmpeg, isCancelled, engines, created, cancelAwait, calls >>

(***************************************************************************)
(* The specification.                                                      *)
(***************************************************************************)
Next ==
    \/ setFFmpegInstance
    \/ cancelConversion
    \/ cancelConversionResume
    \/ \E file \in Files, format \in TargetFormats : convertMedia(file, format)
    \/ ImageMagickRead
    \/ GenericFetchFile
    \/ GenericWriteFile
    \/ GenericPaletteExec
    \/ GenericExec
    \/ GenericReadFile
    \/ CleanupDelete
    \/ EngineProgress
    \/ AnimatedReadCollection
    \/ FrameTimer
    \/ FrameWriteFile
    \/ AnimatedExec
    \/ AnimatedReadFile

Spec == Init /\ [][Next]_vars

\* Every timer fires and every writeFile the worker was sent settles (it is
\* answered, or rejected by terminate()).
SpecFair ==
    /\ Spec
    /\ WF_vars(FrameTimer)
    /\ WF_vars(FrameWriteFile)

(***************************************************************************)
(* The frame extraction pipeline on its own: one animated WebP -> 'mp4'    *)
(* call at a time, on an image of more than BATCH_SIZE frames, so that the *)
(* batch loop takes more than one turn.                                    *)
(***************************************************************************)
PipelineFile == [name |-> "a", type |-> "image/webp", size |-> MaxFileSize]
PipelineFrameCounts == {PipelineFrames}

NextPipeline ==
    \/ setFFmpegInstance
    \/ cancelConversion
    \/ cancelConversionResume
    \/ convertMedia(PipelineFile, "mp4")
    \/ AnimatedReadCollectionOf(PipelineFrameCounts)
    \/ FrameTimer
    \/ FrameWriteFileOf(MaxWriteFaults)
    \/ AnimatedExec
    \/ AnimatedReadFile
    \/ CleanupDelete
    \/ EngineProgress

SpecPipeline == Init /\ [][NextPipeline]_vars

(***************************************************************************)
(* A second convertMedia call while the first is in flight.                *)
(***************************************************************************)
NextOverlap ==
    \/ Next
    \/ \E file \in Files, format \in TargetFormats : convertMediaDuring(file, format)

SpecOverlap == Init /\ [][NextOverlap]_vars

(***************************************************************************)
(* Two calls in a row on the same instance: a video and an animated WebP,  *)
(* both to 'mp4', so that both kinds of progress listener are registered.  *)
(***************************************************************************)
HandlerFiles == [name : {"a"}, type : {"video/mp4", "image/webp"}, size : {MaxFileSize}]

NextHandlers ==
    \/ setFFmpegInstance
    \/ cancelConversion
    \/ cancelConversionResume
    \/ \E file \in HandlerFiles : convertMediaUpTo(HandlerCalls, file, "mp4")
    \/ GenericFetchFile
    \/ GenericWriteFile
    \/ GenericExec
    \/ GenericReadFile
    \/ CleanupDelete
    \/ EngineProgress
    \/ AnimatedReadCollection
    \/ FrameTimer
    \/ FrameWriteFileOf(MaxWriteFaults)
    \/ AnimatedExec
    \/ AnimatedReadFile

SpecHandlers == Init /\ [][NextHandlers]_vars

(***************************************************************************)
(* The codec tables at work: video and audio files converted by FFmpeg to  *)
(* every video and audio format the helpers list, in several spellings.    *)
(***************************************************************************)
CodecFiles == [name : {"a"}, type : {"video/mp4", "audio/mpeg"}, size : {MaxFileSize}]
CodecFormats ==
    {"mp4", "MP4", "webm", "WebM", "gif", "mov", "mkv", "avi", "flv",
     "mp3", "Mp3", "aac", "ogg", "OGG", "wav", "m4a", "flac", "FLAC"}

NextCodecs ==
    \/ setFFmpegInstance
    \/ \E file \in CodecFiles, format \in CodecFormats : convertMedia(file, format)
    \/ GenericFetchFile
    \/ GenericWriteFile
    \/ GenericPaletteExec
    \/ GenericExec
    \/ GenericReadFile
    \/ CleanupDelete

SpecCodecs == Init /\ [][NextCodecs]_vars

(***************************************************************************)
(* Vocabulary of the properties.                                           *)
(***************************************************************************)
Done == job.pc = "done"

\* Media kinds of the call's input and target, from the four kind flags.
InputKind == IF job.isInputVideo THEN "Video"
             ELSE IF job.isInputAudio THEN "Audio" ELSE "Image"
TargetKind == IF job.isTargetVideo THEN "Video"
              ELSE IF job.isTargetAudio THEN "Audio" ELSE "Image"

UnsupportedPairs ==
    { << "Audio", "Image" >>, << "Audio", "Video" >>, << "Image", "Audio" >> }
UnsupportedPairing == << InputKind, TargetKind >> \in UnsupportedPairs

\* The argument vectors the per-scenario templates produce for this call.
TemplateVectors ==
    LET in == InputName(job.file)
        out == OutputName(job.targetFormat)
        fmt == job.targetFormat
    IN  { ImageToVideoArgs(in, fmt, out), VideoToImageArgs(in, out),
          VideoToVideoArgs(in, fmt, out), AudioToAudioArgs(in, fmt, out),
          VideoToAudioArgs(in, fmt, out), PaletteUseArgs(in, out),
          FrameSequenceArgs(FramePattern, fmt, out) }

IsNonDecreasing(s) == \A i \in 1..(Len(s) - 1) : s[i] <= s[i + 1]

(***************************************************************************)
(* C1.  A call during which cancelConversion was invoked ends Cancelled:   *)
(* it returns no bytes and reports no other failure.                       *)
(***************************************************************************)
C1_CancelDuringCallEndsCancelled ==
    (Done /\ job.cancelDuring) => job.outcome = "Cancelled"

(***************************************************************************)
(* C2.  When a call ends Cancelled, the names passed to its cleanup calls  *)
(* cover every resource it has written into the engine's filesystem.       *)
(***************************************************************************)
C2_CancelledCleanupCoversWritten ==
    (Done /\ job.outcome = "Cancelled") => job.written \subseteq job.cleanupNamed

(***************************************************************************)
(* C3.  cleanupTempFiles is invoked exactly once per call, on every exit   *)
(* path of convertMedia.                                                   *)
(***************************************************************************)
C3_CleanupExactlyOnce == Done => job.cleanupCalls = 1

(***************************************************************************)
(* C4.  When an exec or the output read-back fails with the flag unset, a  *)
(* deletion has been attempted for every resource the call has written     *)
(* before the failure is surfaced.                                         *)
(***************************************************************************)
C4_FailureReleasesWritten ==
    (Done /\ job.errOp \in {"exec", "readFile"} /\ job.errFlag = "unset")
        => job.written \subseteq job.deleteAttempted

(***************************************************************************)
(* C5.  The values one call passes to onProgress never decrease.           *)
(***************************************************************************)
C5_ProgressNonDecreasing == IsNonDecreasing(job.progress)

(***************************************************************************)
(* C6.  A call fails with FileTooLarge exactly when the file is larger     *)
(* than 104857600 bytes, and such a call touches neither engine and        *)
(* registers nothing.                                                      *)
(***************************************************************************)
C6_FileTooLargeIffOverLimit ==
    Done =>
        /\ (job.outcome = "FileTooLarge") <=> (job.file.size > 104857600)
        /\ job.outcome = "FileTooLarge" =>
               /\ job.engineOps = 0
               /\ job.magickOps = 0
               /\ job.written = {}
               /\ job.execs = << >>
               /\ job.cleanupCalls = 0

C6_Witness ==
    Done /\ job.outcome = "FileTooLarge" /\ job.file.size = 104857601 /\ created = 1

(***************************************************************************)
(* C7.  cancelConversion sets the flag and leaves no handle installed,     *)
(* whether or not a call is running; a convertMedia call routed to FFmpeg  *)
(* that starts with no handle installed (discarded and not set again, or   *)
(* never set) ends at once with EngineUnavailable, having written, run and *)
(* deleted nothing.                                                        *)
(***************************************************************************)
C7_CancelDiscardsHandleAndCallsFailFast ==
    [][ /\ ((~cancelAwait /\ cancelAwait') \/ (~isCancelled /\ isCancelled'))
            => (isCancelled' /\ (cancelAwait' \/ ffmpeg' = NoHandle))
        /\ (cancelAwait /\ ~cancelAwait') => ffmpeg' = NoHandle
        /\ (calls' = calls + 1 /\ ffmpeg = NoHandle /\ job'.route = "ffmpeg")
            => /\ job'.pc = "done"
               /\ job'.outcome = "EngineUnavailable"
               /\ job'.engineOps = 0
               /\ job'.written = {}
               /\ engines' = engines
      ]_vars

\* A call that found the handle discarded by an earlier cancelConversion.
C7_Witness ==
    Done /\ job.outcome = "EngineUnavailable" /\ created = 1 /\ ffmpeg = NoHandle

(***************************************************************************)
(* C8, as stated.  An exec error raised while the flag is set is reported  *)
(* as Cancelled, one raised while the flag is unset is reported as the     *)
(* engine failure, and no error raised while the flag is set is reported   *)
(* as anything but Cancelled.                                              *)
(***************************************************************************)
C8_ExecErrorReportedByFlagWhenRaised ==
    Done =>
        /\ (job.errOp = "exec" /\ job.errFlag = "set") => job.outcome = "Cancelled"
        /\ (job.errOp = "exec" /\ job.errFlag = "unset")
               => job.outcome = "EngineExecutionFailed"
        /\ job.errFlag = "set" => job.outcome = "Cancelled"

(***************************************************************************)
(* C8, amended.  An exec error is reported as Cancelled when                *)
(* cancelConversion was called before the call returned (the flag is read  *)
(* when the error reaches convertMedia's catch block, after the cleanup),  *)
(* and as the engine failure otherwise; no error raised while the flag is  *)
(* set is reported as anything but Cancelled.                              *)
(***************************************************************************)
C8_ExecErrorReportedByFlagAtReturn ==
    Done =>
        /\ job.errOp = "exec" =>
               job.outcome = IF job.cancelDuring THEN "Cancelled"
                             ELSE "EngineExecutionFailed"
        /\ job.errFlag = "set" => job.outcome = "Cancelled"

\* An exec rejected with the flag unset, and the flag was set during cleanup.
C8_Witness ==
    /\ Done
    /\ job.errOp = "exec"
    /\ job.errFlag = "unset"
    /\ job.cancelDuring
    /\ job.outcome = "Cancelled"

(***************************************************************************)
(* C9.  For an unsupported pairing (Audio->Image, Audio->Video,            *)
(* Image->Audio) the call passes no argument vector to exec and ends with  *)
(* UnsupportedScenario.  (Calls that ended on a missing handle, a failed   *)
(* write of the input or a cancellation are left out of the second half.)  *)
(***************************************************************************)
C9_UnsupportedPairingRejected ==
    UnsupportedPairing =>
        /\ job.execs = << >>
        /\ (Done /\ job.outcome \notin {"EngineUnavailable", "EngineIOFailed", "Cancelled"})
               => job.outcome = "UnsupportedScenario"

(***************************************************************************)
(* C10.  For a supported pairing on the FFmpeg route, the argument vector  *)
(* of the final exec is one of the per-scenario templates and is not       *)
(* empty.                                                                  *)
(***************************************************************************)
C10_FinalExecArgsFromTemplate ==
    (job.route = "ffmpeg" /\ ~UnsupportedPairing /\ job.pc \in {"gen_exec", "anim_exec"})
        => (PendingArgs(job) \in TemplateVectors /\ PendingArgs(job) # << >>)

(***************************************************************************)
(* C11.  One scenario governs the final exec of a call, the special cases  *)
(* first: an 'image/webp' input with a video target runs the frame-        *)
(* sequence template and never the ImageToVideo loop template; a video     *)
(* input with target 'gif' ends with the palette-use template and never    *)
(* runs the VideoToVideo template; every other pair that has a scenario in *)
(* the general matrix runs that scenario's template.                       *)
(***************************************************************************)
MatrixTemplate(inKind, tgtKind, in, fmt, out) ==
    CASE << inKind, tgtKind >> = << "Image", "Video" >> -> ImageToVideoArgs(in, fmt, out)
      [] << inKind, tgtKind >> = << "Video", "Image" >> -> VideoToImageArgs(in, out)
      [] << inKind, tgtKind >> = << "Video", "Video" >> -> VideoToVideoArgs(in, fmt, out)
      [] << inKind, tgtKind >> = << "Audio", "Audio" >> -> AudioToAudioArgs(in, fmt, out)
      [] << inKind, tgtKind >> = << "Video", "Audio" >> -> VideoToAudioArgs(in, fmt, out)

MatrixPairs ==
    { << "Image", "Video" >>, << "Video", "Image" >>, << "Video", "Video" >>,
      << "Audio", "Audio" >>, << "Video", "Audio" >> }

C11_SpecialCasesTakePrecedence ==
    (job.route = "ffmpeg" /\ job.pc \in {"gen_exec", "anim_exec"}) =>
        LET in == InputName(job.file)
            fmt == job.targetFormat
            out == OutputName(fmt)
            last == PendingArgs(job)
            ran(v) == \E i \in 1..Len(job.execs) : job.execs[i] = v
        IN  IF job.file.type = "image/webp" /\ TargetKind = "Video"
            THEN /\ job.pc = "anim_exec"
                 /\ last = FrameSequenceArgs(FramePattern, fmt, out)
                 /\ ~ran(ImageToVideoArgs(in, fmt, out))
                 /\ Len(job.execs) = 1
            ELSE IF InputKind = "Video" /\ ToLowerCase(fmt) = "gif"
            THEN /\ job.pc = "gen_exec"
                 /\ last = PaletteUseArgs(in, out)
                 /\ ~ran(VideoToVideoArgs(in, fmt, out))
            ELSE << InputKind, TargetKind >> \in MatrixPairs =>
                 /\ job.pc = "gen_exec"
                 /\ last = MatrixTemplate(InputKind, TargetKind, in, fmt, out)
                 /\ Len(job.execs) = 1

\* The frame-sequence exec of an animated WebP -> video call is pending.
C11_Witness ==
    /\ job.pc = "anim_exec"
    /\ job.file.type = "image/webp"
    /\ job.targetFormat = "mp4"
    /\ PendingArgs(job) = FrameSequenceArgs(FramePattern, "mp4", "output.mp4")

(***************************************************************************)
(* C12.  A call that passes the size check is routed to ImageMagick        *)
(* exactly when neither its input nor its target is video or audio and     *)
(* (the input MIME does not contain 'webp' or the target format,           *)
(* lowercased, is 'png'); every other such call is routed to FFmpeg.       *)
(***************************************************************************)
C12_RoutedToImageMagickIff ==
    (job.id > 0 /\ job.file.size <= 104857600) =>
        job.route =
            IF /\ InputKind = "Image"
               /\ TargetKind = "Image"
               /\ (~Includes(job.file.type, "webp") \/ ToLowerCase(job.targetFormat) = "png")
            THEN "imagemagick"
            ELSE "ffmpeg"

\* A WebP input with target 'PNG' went through ImageMagick.
C12_Witness ==
    /\ Done
    /\ job.route = "imagemagick"
    /\ job.file.type = "image/webp"
    /\ job.targetFormat = "PNG"
    /\ job.magickOps = 1

(***************************************************************************)
(* C13.  A call on the ImageMagick route makes no FFmpeg call (no write,   *)
(* exec, read, delete or listener registration), never fails for want of a *)
(* handle, and on success returns a Blob tagged image/<targetFormat>.      *)
(***************************************************************************)
C13_ImageMagickRouteLeavesEngineAlone ==
    job.route = "imagemagick" =>
        /\ job.engineOps = 0
        /\ job.written = {}
        /\ job.execs = << >>
        /\ job.deleteAttempted = {}
        /\ job.cleanupCalls = 0
        /\ \A h \in Handles : \A l \in engines[h].handlers : l.job # job.id
        /\ Done => job.outcome \in {"Success", "Cancelled", "DecodeFailed",
                                    "UnsupportedTargetFormat"}
        /\ (Done /\ job.outcome = "Success")
               => job.resultTag = "image/" \o job.targetFormat

\* A PNG converted to 'PNG' with no FFmpeg instance ever installed.
C13_Witness ==
    /\ Done
    /\ job.route = "imagemagick"
    /\ job.outcome = "Success"
    /\ job.targetFormat = "PNG"
    /\ job.resultTag = "image/PNG"
    /\ ffmpeg = NoHandle
    /\ created = 0

(***************************************************************************)
(* C14.  A video -> 'gif' call runs exactly two execs, palette generation  *)
(* first and the palette-use encode second (a call that ended early on a   *)
(* failure or a cancellation has run a prefix of the two), and when the    *)
(* call has ended the palette it made is in no engine filesystem.          *)
(***************************************************************************)
C14_VideoToGifTwoExecsPaletteDeleted ==
    (job.route = "ffmpeg" /\ job.isInputVideo /\ ToLowerCase(job.targetFormat) = "gif") =>
        LET in == InputName(job.file)
            out == OutputName(job.targetFormat)
            both == << PaletteGenArgs(in), PaletteUseArgs(in, out) >>
        IN  /\ Len(job.execs) <= 2
            /\ job.execs = SubSeq(both, 1, Len(job.execs))
            /\ (Done /\ job.outcome = "Success") => job.execs = both
            /\ (Done /\ PaletteName \in job.written)
                   => \A h \in Handles : PaletteName \notin engines[h].fs

(***************************************************************************)
(* C15.  In an animated WebP -> video call, when the exec over the frame   *)
(* sequence is issued, every frame 0..N-1 of the N decoded frames is in    *)
(* the engine's filesystem under its zero-padded name.                     *)
(***************************************************************************)
C15_AllFramesWrittenAtExec ==
    [][ (job.pc # "anim_exec" /\ job'.pc = "anim_exec") =>
            /\ Len(job'.frameNames) = job'.frameCount
            /\ \A k \in 0..(job'.frameCount - 1) :
                   /\ job'.frameNames[k + 1] = FrameName(k)
                   /\ FrameName(k) \in engines'[job'.h].fs
      ]_vars

(***************************************************************************)
(* C16.  In an animated WebP -> video call over N frames, the i-th value   *)
(* passed to onProgress during frame extraction is                         *)
(* round(framesCompleted / N * 40) for the frames completed after batch i  *)
(* and lies in [0, 40]; every value passed after the extraction, by the    *)
(* listener of the encode exec, lies in [40, 100] and is passed only once  *)
(* the exec was issued.                                                    *)
(***************************************************************************)
C16_AnimatedProgressRanges ==
    (job.route = "ffmpeg" /\ job.frameCount > 0) =>
        LET N == job.frameCount
            batches == (N + 9) \div 10
            completed(i) == IF 10 * i < N THEN 10 * i ELSE N
        IN  /\ \A i \in 1..Len(job.progress) :
                   IF i <= batches
                   THEN /\ 2 * N * job.progress[i] <= 2 * 40 * completed(i) + N
                        /\ 2 * N * job.progress[i] > 2 * 40 * completed(i) - N
                        /\ job.progress[i] \in 0..40
                   ELSE job.progress[i] \in 40..100
            /\ Len(job.progress) > batches => Len(job.execs) = 1
            /\ job.pc = "anim_exec" => Len(job.progress) >= batches

\* Two batches were reported (36 after 10 of 11 frames, then 40) and the
\* encode has reported its end.
C16_Witness ==
    /\ job.pc = "anim_exec"
    /\ job.frameCount = 11
    /\ Len(job.progress) >= 3
    /\ job.progress[1] = 36
    /\ job.progress[2] = 40
    /\ job.progress[Len(job.progress)] = 100

(***************************************************************************)
(* C17.  An animated WebP -> video call issues its exec only after every   *)
(* batch of frames has completed; a successful one has run exactly one     *)
(* exec, over the frame sequence at a constant 25 frames per second, and   *)
(* returns a Blob tagged video/<targetFormat>.                             *)
(***************************************************************************)
C17_AnimatedOneExecAfterBatches ==
    (job.route = "ffmpeg" /\ job.file.type = "image/webp" /\ job.isTargetVideo) =>
        /\ job.pc = "anim_exec" =>
               /\ Len(job.frames) = job.frameCount
               /\ \A k \in 1..Len(job.frames) : job.frames[k].st = "resolved"
               /\ Len(job.progress) >= (job.frameCount + 9) \div 10
        /\ Len(job.execs) <= 1
        /\ (Done /\ job.outcome = "Success") =>
               /\ Len(job.execs) = 1
               /\ SubSeq(job.execs[1], 1, 4) = << "-framerate", "25", "-i", "frame-%04d.png" >>
               /\ job.execs[1][Len(job.execs[1])] = "output." \o job.targetFormat
               /\ job.resultTag = "video/" \o job.targetFormat

\* An animated WebP was converted to mp4.
C17_Witness ==
    /\ Done
    /\ job.outcome = "Success"
    /\ job.file.type = "image/webp"
    /\ job.resultTag = "video/mp4"
    /\ Len(job.execs) = 1
    /\ Len(job.progress) >= 2

(***************************************************************************)
(* C18.  Every convertMedia call starts by clearing the flag, so a call    *)
(* ends Cancelled only if cancelConversion was called while it ran: a      *)
(* cancelConversion made before the call began never cancels it.           *)
(***************************************************************************)
C18_FlagClearedAtStart ==
    [][ /\ calls' = calls + 1 => ~isCancelled'
        /\ (job'.pc = "done" /\ job'.outcome = "Cancelled") => job'.cancelDuring
      ]_vars

\* A call made after a completed cancelConversion (the handle is gone, the
\* flag is clear again) that succeeded.
C18_Witness ==
    /\ Done
    /\ job.outcome = "Success"
    /\ ~job.cancelDuring
    /\ ~isCancelled
    /\ ~cancelAwait
    /\ ffmpeg = NoHandle
    /\ created = 1

(***************************************************************************)
(* C19.  cancelConversion is idempotent: from any state with no            *)
(* cancelConversion under way, two calls in a row leave the flag set and   *)
(* no handle installed, exactly as one call does, and the second call      *)
(* makes no terminate() call and changes no instance.                      *)
(***************************************************************************)
C19_CancelIdempotent ==
    ~cancelAwait =>
        LET once == CancelConversionFrom(ModuleState)
            twice == CancelConversionFrom(once)
        IN  /\ once.flag
            /\ once.handle = NoHandle
            /\ twice.flag = once.flag
            /\ twice.handle = once.handle
            /\ twice.engines = once.engines
            /\ twice.teardowns = once.teardowns

\* A cancelConversion has run to its end on an installed instance while a call
\* was in progress; the next one finds the flag set and no handle.
C19_Witness ==
    /\ isCancelled
    /\ ~cancelAwait
    /\ ffmpeg = NoHandle
    /\ created = 1
    /\ ~engines[1].loaded
    /\ job.cancelDuring

(***************************************************************************)
(* C20.  cleanupTempFiles is best-effort.  Each deletion it awaits, failed *)
(* or not, is followed by the attempt on the next name of its list; a      *)
(* failed deletion (the name is absent, for instance already deleted, or   *)
(* the instance is gone) adds one warning and nothing else; after the last *)
(* name the caller goes on as it would have: the result is returned, or    *)
(* the error it was about to rethrow is rethrown.                          *)
(***************************************************************************)
C20_CleanupBestEffort ==
    [][ (job.pc = "cleanup" /\ job' # job /\ job' # [job EXCEPT !.cancelDuring = TRUE]) =>
            LET name == Head(job.cleanupQueue)
                rest == Tail(job.cleanupQueue)
                failed == ~(engines[job.h].loaded /\ name \in engines[job.h].fs)
            IN  /\ name \in job.deleteAttempted
                /\ job'.warnings = job.warnings + (IF failed THEN 1 ELSE 0)
                /\ rest # << >> =>
                       /\ job'.pc = "cleanup"
                       /\ job'.cleanupQueue = rest
                       /\ Head(rest) \in job'.deleteAttempted
                       /\ job'.cleanupAfter = job.cleanupAfter
                       /\ job'.error = job.error
                /\ rest = << >> =>
                       CASE job.cleanupAfter = "return" ->
                                job'.pc = "done" /\ job'.outcome = "Success"
                         [] job.cleanupAfter = "rethrow" ->
                                /\ job'.pc = "done"
                                /\ job'.outcome = IF isCancelled THEN "Cancelled"
                                                  ELSE job.error
                         [] job.cleanupAfter = "throwCancelled" ->
                                \/ job'.pc = "done" /\ job'.outcome = "Cancelled"
                                \/ job'.pc = "cleanup" /\ job'.error = "Cancelled"
      ]_vars

\* A call returned its result although two of the deletions of its final
\* cleanup failed, and every name passed to cleanup was attempted.
C20_Witness ==
    /\ Done
    /\ job.outcome = "Success"
    /\ job.warnings >= 2
    /\ job.cleanupCalls = 1
    /\ job.deleteAttempted = job.cleanupNamed
    /\ Cardinality(job.deleteAttempted) >= 3

(***************************************************************************)
(* C21.  A successful call returns a Blob tagged video/<targetFormat> when *)
(* the target is a video format and image/<targetFormat> when the target   *)
(* is neither a video nor an audio format, whichever engine did the work.  *)
(***************************************************************************)
C21_ResultMimeTag ==
    (Done /\ job.outcome = "Success") =>
        /\ TargetKind = "Video" => job.resultTag = "video/" \o job.targetFormat
        /\ TargetKind = "Image" => job.resultTag = "image/" \o job.targetFormat

\* A video converted to a still image by FFmpeg.
C21_Witness ==
    /\ Done
    /\ job.outcome = "Success"
    /\ job.route = "ffmpeg"
    /\ job.isInputVideo
    /\ job.targetFormat = "jpg"
    /\ job.resultTag = "image/jpg"

(***************************************************************************)
(* C22.  The codec tables are total and ignore case.  getVideoCodec gives  *)
(* libx264 for mp4, libvpx-vp9 for webm, gif for gif and libx264 for       *)
(* anything else; getAudioCodec gives libmp3lame for mp3, aac for aac and  *)
(* m4a, libvorbis for ogg, pcm_s16le for wav, flac for flac and aac for    *)
(* anything else.  The codecs in the argument vector of a pending exec are *)
(* the ones these tables name for the call's target format.                *)
(***************************************************************************)
ExpectedVideoCodec(format) ==
    IF format \in {"mp4", "MP4"} THEN "libx264"
    ELSE IF format \in {"webm", "WebM"} THEN "libvpx-vp9"
    ELSE IF format \in {"gif"} THEN "gif"
    ELSE "libx264"

ExpectedAudioCodec(format) ==
    IF format \in {"mp3", "Mp3"} THEN "libmp3lame"
    ELSE IF format \in {"aac", "m4a"} THEN "aac"
    ELSE IF format \in {"ogg", "OGG"} THEN "libvorbis"
    ELSE IF format \in {"wav"} THEN "pcm_s16le"
    ELSE IF format \in {"flac", "FLAC"} THEN "flac"
    ELSE "aac"

UnknownFormats == {"", "xyz", "png", "mp44", "m4v"}

C22_CodecTablesTotal ==
    /\ \A f \in CodecFormats \cup UnknownFormats :
           /\ getVideoCodec(f) = ExpectedVideoCodec(f)
           /\ getAudioCodec(f) = ExpectedAudioCodec(f)
    /\ (job.pc = "gen_exec" /\ ~IsVideoToGif(job.isInputVideo, job.targetFormat)) =>
           LET args == PendingArgs(job)
               fmt == job.targetFormat
           IN  /\ << InputKind, TargetKind >> = << "Video", "Video" >> =>
                      args[4] = ExpectedVideoCodec(fmt) /\ args[6] = ExpectedAudioCodec(fmt)
               /\ << InputKind, TargetKind >> = << "Audio", "Audio" >> =>
                      args[4] = ExpectedAudioCodec(fmt)
               /\ << InputKind, TargetKind >> = << "Video", "Audio" >> =>
                      args[5] = ExpectedAudioCodec(fmt)

\* A video is being converted to 'WebM' with the VP9 codec and the default
\* audio codec.
C22_Witness ==
    /\ job.pc = "gen_exec"
    /\ job.isInputVideo
    /\ job.targetFormat = "WebM"
    /\ PendingArgs(job)[4] = "libvpx-vp9"
    /\ PendingArgs(job)[6] = "aac"

(***************************************************************************)
(* C23.  On the ImageMagick route a call whose image was decoded, and that *)
(* was not cancelled, fails with UnsupportedTargetFormat exactly when the  *)
(* target format, lowercased, is none of png, jpg, jpeg, webp, gif, bmp,   *)
(* tiff.  No call on the FFmpeg route fails with UnsupportedTargetFormat.  *)
(***************************************************************************)
C23_UnsupportedTargetFormatIff ==
    Done =>
        LET known == ToLowerCase(job.targetFormat)
                        \in {"png", "jpg", "jpeg", "webp", "gif", "bmp", "tiff"}
        IN  /\ job.outcome = "UnsupportedTargetFormat" =>
                   job.route = "imagemagick" /\ ~known
            /\ (job.route = "imagemagick" /\ job.outcome \notin {"Cancelled", "DecodeFailed"})
                   => (job.outcome = "UnsupportedTargetFormat" <=> ~known)
            /\ (job.route = "imagemagick" /\ known /\ job.outcome \notin {"Cancelled", "DecodeFailed"})
                   => job.outcome = "Success"

\* A PNG whose target format 'xyz' ImageMagick's table does not have.
C23_Witness ==
    /\ Done
    /\ job.route = "imagemagick"
    /\ job.targetFormat = "xyz"
    /\ job.outcome = "UnsupportedTargetFormat"
    /\ job.progress = << 50 >>

(***************************************************************************)
(* C24, as stated.  On the generic FFmpeg branch the flag is read before   *)
(* every exec is issued, the palette-use exec of a video -> 'gif' call     *)
(* included.                                                               *)
(***************************************************************************)
GenericBranch ==
    job.route = "ffmpeg" /\ ~(job.file.type = "image/webp" /\ job.isTargetVideo)

C25_PipelineStopsOnceCancelled ==
    [][ (isCancelled /\ job.pc = "anim_batch") =>
            /\ \A k \in 1..Len(job'.frames) :
                   job'.frames[k].st = "writing" =>
                       (k <= Len(job.frames) /\ job.frames[k].st = "writing")
            /\ Len(job'.frames) <= Len(job.frames)
            /\ job'.execs = << >>
            /\ job'.pc \in {"anim_batch", "cleanup", "done"}
            /\ job'.pc # "anim_batch" => job'.cleanupCalls >= 1
            /\ job'.pc = "done" => job'.outcome = "Cancelled"
      ]_vars

\* A call cancelled during its first batch: the second batch never started.
C25_Witness ==
    /\ Done
    /\ job.outcome = "Cancelled"
    /\ job.progress = << 36 >>
    /\ job.execs = << >>
    /\ job.written # {}

(***************************************************************************)
(* C26.  Every frame promise of a batch resolves, whether its writeFile    *)
(* succeeded, failed or was skipped after a cancellation, so every         *)
(* Promise.all of a batch is released and the extraction promise settles:  *)
(* a call that is extracting frames eventually is not.                     *)
(***************************************************************************)
C26_ExtractionSettles == (job.pc = "anim_batch") ~> (job.pc # "anim_batch")

\* The extraction settled although one frame's writeFile had failed.
C26_Witness ==
    /\ job.pc = "anim_exec"
    /\ job.faults = 1
    /\ Cardinality(job.written) = job.frameCount - 1
    /\ job.frameCount >= 2

(***************************************************************************)
(* C27.  During frame extraction at most 10 frame promises are pending at  *)
(* any time, and a frame of a later batch exists only when every frame of  *)
(* every earlier batch has resolved.                                       *)
(***************************************************************************)
C27_BatchesBoundConcurrency ==
    job.pc = "anim_batch" =>
        LET n == Len(job.frames)
            pending == { k \in 1..n : job.frames[k].st # "resolved" }
            batch(k) == (k - 1) \div 10
        IN  /\ Cardinality(pending) <= 10
            /\ \A k \in 1..n : \A m \in 1..n :
                   batch(m) < batch(k) => job.frames[m].st = "resolved"
            /\ \A k \in pending : batch(k) = batch(n)

\* The second batch is in flight: the writeFile of frame 10 is pending.
C27_Witness ==
    /\ job.pc = "anim_batch"
    /\ Len(job.frames) = 11
    /\ job.frames[11].st = "writing"
    /\ Cardinality(job.written) = 10

(***************************************************************************)
(* C28.  A call has at most one exec pending at any time: every exec       *)
(* issued before the pending one has settled (the palette exec before the  *)
(* palette-use exec), and the exec over the frame sequence is issued only  *)
(* when the writeFile of every frame has settled.                          *)
(***************************************************************************)
C28_OneExecInFlight ==
    /\ Len(job.execs) - job.settled \in {0, 1}
    /\ Len(job.execs) - job.settled = 1 <=> ExecPending
    /\ (job.pc = "gen_exec" /\ Len(job.execs) = 2) => job.settled = 1
    /\ job.pc = "anim_exec" =>
           /\ Len(job.frames) = job.frameCount
           /\ \A k \in 1..Len(job.frames) : job.frames[k].st = "resolved"

\* The palette-use exec is pending and the palette exec has settled.
C28_Witness ==
    /\ job.pc = "gen_exec"
    /\ Len(job.execs) = 2
    /\ job.settled = 1
    /\ PaletteName \in engines[job.h].fs

(***************************************************************************)
(* C29.  Listeners are never removed from an instance, a call that issues  *)
(* an exec has registered its listener pair before, and a progress event   *)
(* runs the progress sink of every listener registered on the instance,    *)
(* each with the scaling of the call that registered it, whether that call *)
(* has returned or not.                                                    *)
(***************************************************************************)
C29_ListenersAccumulate ==
    [][ /\ \A h \in Handles : engines[h].handlers \subseteq engines'[h].handlers
        /\ job'.execs # << >> =>
               \E h \in Handles : \E l \in engines'[h].handlers : l.job = job'.id
        /\ job'.engProg # job.engProg /\ job'.engProg >= 0 =>
               \A l \in engines[job.h].handlers :
                   [job |-> l.job,
                    value |-> IF l.kind = "anim"
                              THEN 40 + (job'.engProg * 60 + 50) \div 100
                              ELSE job'.engProg] \in job'.sinks ]_vars

\* The original statement: every call routed to FFmpeg (and that found an
\* instance there) has registered its listener pair by the time it returns.
C29_EveryRoutedCallRegisters ==
    (job.pc = "done" /\ job.route = "ffmpeg" /\ job.outcome # "EngineUnavailable") =>
        \E h \in Handles : \E l \in engines[h].handlers : l.job = job.id

\* The second call's exec reports 50 %: the sink of the first call, which has
\* returned, runs too, and the two sinks are handed different values.
C29_Witness ==
    /\ job.id = 2
    /\ ExecPending
    /\ job.engProg = 50
    /\ \E a \in job.sinks : \E b \in job.sinks :
           a.job = 1 /\ b.job = 2 /\ a.value # b.value

(***************************************************************************)
(* C30.  When an animated WebP -> video call ends Cancelled after frames   *)
(* were written to the engine filesystem, the names passed to its cleanup  *)
(* calls include every one of those frames, both when the flag was seen at *)
(* the head of a batch and when it was seen after the extraction resolved. *)
(***************************************************************************)
C30_CancelledPipelineNamesFrames ==
    (/\ job.pc = "done"
     /\ job.outcome = "Cancelled"
     /\ IsAnimatedWebpToVideo(job.file.type, job.targetFormat)) =>
        \A k \in 0..(PipelineFrames - 1) :
            FrameName(k) \in job.written => FrameName(k) \in job.cleanupNamed

(***************************************************************************)
(* C31.  A cleanup call made while the module holds no instance (before    *)
(* one was installed, or after cancelConversion discarded it) deletes      *)
(* nothing and logs nothing: it attempts no deleteFile on any instance,    *)
(* logs no warning, changes no filesystem, and returns in the same turn.   *)
(***************************************************************************)
C31_CleanupWithoutHandleIsNoOp ==
    [][ (/\ job'.cleanupCalls > job.cleanupCalls
         /\ job'.id = job.id
         /\ ffmpeg = NoHandle) =>
            /\ job'.deleteAttempted = job.deleteAttempted
            /\ job'.pc # "cleanup"
            \* a step from "cleanup" first settles the last deleteFile of
            \* the cleanup call before
            /\ job.pc # "cleanup" =>
                   /\ job'.warnings = job.warnings
                   /\ \A h \in Handles : engines'[h].fs = engines[h].fs ]_vars

\* A call cancelled during its exec cleaned up after the handle was discarded:
\* its input was named and no deletion was attempted.
C31_Witness ==
    /\ job.pc = "done"
    /\ job.cancelDuring
    /\ ffmpeg = NoHandle
    /\ created > 0
    /\ job.cleanupCalls > 0
    /\ job.cleanupNamed # {}
    /\ job.deleteAttempted = {}

(***************************************************************************)
(* C32.  cancelConversion has set the flag by the time it terminates an    *)
(* instance, and it discards the handle only after the await of            *)
(* terminate(), on an instance that is terminated.  So a call that was     *)
(* running when cancelConversion was invoked, and that sees an engine call *)
(* fail on a terminated instance or finds the handle gone, sees it with    *)
(* the flag set.                                                           *)
(***************************************************************************)
C32_FlagSetBeforeTeardown ==
    [][ /\ \A h \in Handles :
               (engines[h].loaded /\ ~engines'[h].loaded) => isCancelled'
        /\ (ffmpeg # NoHandle /\ ffmpeg' = NoHandle) =>
               cancelAwait /\ ~engines[ffmpeg].loaded
        /\ (/\ job'.id = job.id
            /\ job.cancelDuring
            /\ job.errOp = ""
            /\ job'.errOp \in {"writeFile", "exec", "readFile", "handle"}
            /\ \/ job.h # NoHandle /\ ~engines[job.h].loaded
               \/ ffmpeg = NoHandle) =>
               isCancelled /\ job'.errFlag = "set" ]_vars

\* A call whose exec was rejected by the teardown ended Cancelled.
C32_Witness ==
    /\ job.pc = "done"
    /\ job.cancelDuring
    /\ job.errOp = "exec"
    /\ job.errFlag = "set"
    /\ job.outcome = "Cancelled"
    /\ \A h \in Handles : ~engines[h].loaded

(***************************************************************************)
(* C33.  A call on which cancelConversion was invoked still ends Cancelled *)
(* when a second convertMedia call starts while it is in flight.           *)
(***************************************************************************)
C33_CancelledDespiteSecondCall ==
    (job.pc = "done" /\ job.cancelDuring /\ job.overlapped) =>
        job.outcome = "Cancelled"

(***************************************************************************)
(* C34.  A frame write that the live engine rejects, in a call that is not *)
(* cancelled, does not abort the pipeline: the rejection is not the call's *)
(* failure, the frame's promise is resolved, each batch reports progress   *)
(* round(end / N * 40) with the frame counted in, and the exec over the    *)
(* frame sequence is issued once the last batch is through (on the handle  *)
(* installed then).                                                        *)
(***************************************************************************)
C34_FrameFailureDoesNotAbort ==
    (job.faults >= 1 /\ ~job.cancelDuring) =>
        LET n == job.frameCount
            batches == (n + 9) \div 10
            reported == [b \in 1..batches |->
                            (2 * Min(10 * b, n) * 40 + n) \div (2 * n)]
            resolved == { k \in 1..Len(job.frames) : job.frames[k].st = "resolved" }
        IN  /\ job.errOp # "writeFile"
            /\ job.pc \in {"anim_batch", "anim_exec", "anim_readFile", "cleanup", "done"}
            /\ job.pc = "anim_batch" =>
                   /\ job.errOp = ""
                   \* (a write attempted with no handle installed resolves
                   \* its promise as well, and is no fault of the engine)
                   /\ Cardinality(resolved) >= Cardinality(job.written) + job.faults
            /\ (job.pc # "anim_batch" /\ job.errOp # "handle") => Len(job.execs) = 1
            /\ job.pc \in {"anim_exec", "anim_readFile", "cleanup"} =>
                   /\ Len(job.frames) = n
                   /\ Len(job.progress) >= batches
                   /\ SubSeq(job.progress, 1, batches) = reported

\* The exec is pending although a frame of the first batch was not written.
C34_Witness ==
    /\ job.pc = "anim_exec"
    /\ ~job.cancelDuring
    /\ job.faults = 1
    /\ job.frameCount > BATCH_SIZE
    /\ FrameName(0) \notin job.written
    /\ Cardinality(job.written) = job.frameCount - 1

(***************************************************************************)
(* C35.  No step of a convertMedia call changes the module's handle: the   *)
(* handle changes only when setFFmpegInstance installs an instance and     *)
(* when cancelConversion, after its await, discards it.                    *)
(***************************************************************************)
C35_ConvertLeavesHandle ==
    [][ ffmpeg' # ffmpeg =>
            /\ job' = job
            /\ calls' = calls
            /\ \/ ffmpeg = NoHandle /\ created' = created + 1 /\ ffmpeg' = created'
               \/ cancelAwait /\ ~cancelAwait' /\ ffmpeg' = NoHandle ]_vars

\* A call ran on FFmpeg from start to success and the instance it started
\* with is still installed.
C35_Witness ==
    /\ job.pc = "done"
    /\ job.route = "ffmpeg"
    /\ job.outcome = "Success"
    /\ ~job.cancelDuring
    /\ job.engineOps > 0
    /\ ffmpeg # NoHandle
    /\ engines[ffmpeg].loaded

(***************************************************************************)
(* C36.  In a video -> video call every '-c:a' passed to exec is followed  *)
(* by 'aac', whatever the target format: getAudioCodec is applied to the   *)
(* video target format, and it has no entry for mp4, webm, mov, mkv, avi,  *)
(* flv or gif in any spelling.  Every such call but video -> gif (whose    *)
(* execs are the two palette vectors) passes '-c:a' 'aac' to its exec.     *)
(***************************************************************************)
C36_VideoToVideoAudioCodecIsDefault ==
    /\ \A f \in CodecFormats \cup UnknownFormats :
           isVideoFormat(f) => getAudioCodec(f) = "aac"
    /\ (job.isInputVideo /\ job.isTargetVideo) =>
           /\ \A e \in 1..Len(job.execs) :
                  \A i \in 1..Len(job.execs[e]) :
                      job.execs[e][i] = "-c:a" =>
                          /\ i < Len(job.execs[e])
                          /\ job.execs[e][i + 1] = "aac"
           /\ (Len(job.execs) >= 1 /\ ToLowerCase(job.targetFormat) # "gif") =>
                  \E i \in 1..(Len(job.execs[1]) - 1) :
                      job.execs[1][i] = "-c:a" /\ job.execs[1][i + 1] = "aac"

\* A video was converted to 'mkv' with audio codec 'aac'.
C36_Witness ==
    /\ job.pc = "done"
    /\ job.outcome = "Success"
    /\ job.isInputVideo
    /\ job.targetFormat = "mkv"
    /\ Len(job.execs) = 1
    /\ job.execs[1][5] = "-c:a"
    /\ job.execs[1][6] = "aac"

(***************************************************************************)
(* C37.  A successful call with an audio target (audio -> audio, video ->  *)
(* audio) returns a Blob tagged image/<targetFormat>.  On the FFmpeg route *)
(* the tag is video/<targetFormat> exactly when the target, lowercased, is *)
(* one of mp4, webm, mov, mkv, avi, flv, gif, and image/<targetFormat> in  *)
(* every other case.                                                       *)
(***************************************************************************)
C37_AudioResultTaggedImage ==
    (job.pc = "done" /\ job.outcome = "Success" /\ job.route = "ffmpeg") =>
        LET fmt == job.targetFormat
            inVideoSet == ToLowerCase(fmt) \in
                              {"mp4", "webm", "mov", "mkv", "avi", "flv", "gif"}
        IN  /\ job.isTargetAudio => job.resultTag = "image/" \o fmt
            /\ inVideoSet <=> job.resultTag = "video/" \o fmt
            /\ ~inVideoSet <=> job.resultTag = "image/" \o fmt

\* A video had its audio extracted to 'FLAC'; the result is tagged image/FLAC.
C37_Witness ==
    /\ job.pc = "done"
    /\ job.outcome = "Success"
    /\ job.isInputVideo
    /\ job.isTargetAudio
    /\ job.targetFormat = "FLAC"
    /\ job.resultTag = "image/FLAC"

(***************************************************************************)
(* C38.  Throughout the frame pipeline every frame name written into an    *)
(* engine filesystem is already in the call's list of frame names (a name  *)
(* is pushed before the promise that writes it is created), the list has   *)
(* one name per promise created, and once the last batch has been started  *)
(* it holds the N distinct names frame-0000 .. frame-(N-1), zero-padded to *)
(* four digits, in index order.                                            *)
(***************************************************************************)
C38_WrittenFramesAreRecorded ==
    job.pc \in {"anim_batch", "anim_exec", "anim_readFile", "cleanup"} =>
        LET names == job.frameNames
            digit(d) == SubSeq("0123456789", d + 1, d + 1)
            padded(k) == "frame-" \o digit(k \div 1000) \o digit((k \div 100) % 10)
                             \o digit((k \div 10) % 10) \o digit(k % 10) \o ".png"
            isFrame(f) == Len(f) >= 6 /\ SubSeq(f, 1, 6) = "frame-"
        IN  /\ \A f \in job.written : isFrame(f) => \E i \in 1..Len(names) : names[i] = f
            /\ \A h \in Handles : \A f \in engines[h].fs :
                   isFrame(f) => \E i \in 1..Len(names) : names[i] = f
            /\ Len(names) = Len(job.frames)
            /\ \A i \in 1..Len(names) : names[i] = padded(i - 1)
            /\ \A i \in 1..Len(names) : \A k \in 1..Len(names) :
                   names[i] = names[k] => i = k
            /\ (job.pc = "anim_batch" /\ job.batchStart + 10 >= job.frameCount) =>
                   Len(names) = job.frameCount
            /\ job.pc \in {"anim_exec", "anim_readFile"} => Len(names) = job.frameCount

\* The second batch is under way: its frame is recorded and being written,
\* the frames of the first batch are in the filesystem.
C38_Witness ==
    /\ job.pc = "anim_batch"
    /\ job.batchStart = 10
    /\ Len(job.frameNames) = job.frameCount
    /\ job.frameNames[Len(job.frameNames)] = FrameName(job.frameCount - 1)
    /\ job.frames[Len(job.frames)].st = "writing"
    /\ Cardinality(job.written) = 10
    /\ job.written \subseteq engines[job.frames[1].h].fs

====
